---- MODULE Spec2Model ----
(***************************************************************************)
(* The transposition table of tt.h: TTEntry (save, update, set_generation  *)
(* and the read accessors), TTCluster, and TranspositionTable              *)
(* (first_entry, refresh, and the operations tt.h only declares: set_size, *)
(* clear, store, probe, new_search), sequentially and called by several    *)
(* search threads at once.                                                 *)
(***************************************************************************)
EXTENDS Integers, Sequences, FiniteSets, TLC

(***************************************************************************)
(* Program constants.  Bound, VALUE_NONE, DEPTH_NONE and MOVE_NONE come    *)
(* from types.h, which tt.h includes.                                      *)
(***************************************************************************)
BOUND_NONE == 0
BOUND_UPPER == 1
BOUND_LOWER == 2
BOUND_EXACT == 3
VALUE_NONE == 30002
DEPTH_NONE == -254
MOVE_NONE == 0
ClusterSize == 4

(***************************************************************************)
(* Fixed-width integer conversions and bit operations, as the C++ casts    *)
(* and operators compute them.                                             *)
(***************************************************************************)
ToUint8(x) == x % 256
ToUint16(x) == x % 65536
\* A 64-bit key is its two 32-bit halves; (uint32_t)posKey keeps the low one.
Key64(hi, lo) == [hi |-> hi, lo |-> lo]
ToUint32(posKey) == posKey.lo
NoKey == Key64(0, 0)
ToInt16(x) == ((x + 32768) % 65536) - 32768

RECURSIVE BitAnd(_, _)
BitAnd(a, b) ==
    IF a = 0 \/ b = 0 THEN 0
    ELSE (a % 2) * (b % 2) + 2 * BitAnd(a \div 2, b \div 2)

RECURSIVE BitOr(_, _)
BitOr(a, b) ==
    IF a = 0 THEN b
    ELSE IF b = 0 THEN a
    ELSE (IF a % 2 = 1 \/ b % 2 = 1 THEN 1 ELSE 0) + 2 * BitOr(a \div 2, b \div 2)

RECURSIVE BitXor(_, _)
BitXor(a, b) ==
    IF a = 0 THEN b
    ELSE IF b = 0 THEN a
    ELSE (IF a % 2 = b % 2 THEN 0 ELSE 1) + 2 * BitXor(a \div 2, b \div 2)

(***************************************************************************)
(* TTEntry.                                                                *)
(***************************************************************************)
\* A record of a zero-filled table (clear() zero-fills every byte).
ZeroEntry ==
    [key32 |-> 0, move16 |-> 0, bound |-> 0, generation8 |-> 0,
     valueLower |-> 0, depthLower |-> 0, valueUpper |-> 0, depthUpper |-> 0]

\* save into unsigned 16-bit value and depth fields.
EntrySaveUnsigned(k, v, b, d, m, g) ==
    [key32       |-> k,
     move16      |-> ToUint16(m),
     bound       |-> ToUint8(b),
     generation8 |-> ToUint8(g),
     valueUpper  |-> ToUint16(IF BitAnd(b, BOUND_UPPER) # 0 THEN v ELSE VALUE_NONE),
     depthUpper  |-> ToUint16(IF BitAnd(b, BOUND_UPPER) # 0 THEN d ELSE DEPTH_NONE),
     valueLower  |-> ToUint16(IF BitAnd(b, BOUND_LOWER) # 0 THEN v ELSE VALUE_NONE),
     depthLower  |-> ToUint16(IF BitAnd(b, BOUND_LOWER) # 0 THEN d ELSE DEPTH_NONE)]

\* TTEntry::save
EntrySave(k, v, b, d, m, g) ==
    [key32       |-> k,
     move16      |-> ToUint16(m),
     bound       |-> ToUint8(b),
     generation8 |-> ToUint8(g),
     valueUpper  |-> ToInt16(IF BitAnd(b, BOUND_UPPER) # 0 THEN v ELSE VALUE_NONE),
     depthUpper  |-> ToInt16(IF BitAnd(b, BOUND_UPPER) # 0 THEN d ELSE DEPTH_NONE),
     valueLower  |-> ToInt16(IF BitAnd(b, BOUND_LOWER) # 0 THEN v ELSE VALUE_NONE),
     depthLower  |-> ToInt16(IF BitAnd(b, BOUND_LOWER) # 0 THEN d ELSE DEPTH_NONE)]

\* UpdateHead without the assignment to generation8.
UpdateHeadKeepsGeneration(e, m, g) ==
    LET e1 == [e EXCEPT !.move16 = ToUint16(m)]
    IN  IF e1.bound = BOUND_EXACT
        THEN [e1 EXCEPT !.bound = BitOr(BOUND_UPPER, BOUND_LOWER)]
        ELSE e1

\* UpdateHead that keeps the record's move when the new move is MOVE_NONE.
UpdateHeadKeepsMove(e, m, g) ==
    LET e1 == [e EXCEPT !.move16 = IF m = MOVE_NONE THEN e.move16 ELSE ToUint16(m),
                        !.generation8 = ToUint8(g)]
    IN  IF e1.bound = BOUND_EXACT
        THEN [e1 EXCEPT !.bound = BitOr(BOUND_UPPER, BOUND_LOWER)]
        ELSE e1

\* TTEntry::update, lines 61-65: move, generation, and the EXACT flag.
UpdateHead(e, m, g) ==
    LET e1 == [e EXCEPT !.move16 = ToUint16(m), !.generation8 = ToUint8(g)]
    IN  IF e1.bound = BOUND_EXACT
        THEN [e1 EXCEPT !.bound = BitOr(BOUND_UPPER, BOUND_LOWER)]
        ELSE e1

\* UpdateUpper that keeps a LOWER side the new upper value contradicts.
UpdateUpperKeepsLower(e, v, b, d) ==
    IF BitAnd(b, BOUND_UPPER) # 0
    THEN [e EXCEPT !.valueUpper = ToInt16(v), !.depthUpper = ToInt16(d)]
    ELSE e

\* UpdateUpper with <= for < in the test that invalidates the LOWER side.
UpdateUpperOffByOne(e, v, b, d) ==
    IF BitAnd(b, BOUND_UPPER) # 0
    THEN LET w == [e EXCEPT !.valueUpper = ToInt16(v), !.depthUpper = ToInt16(d)]
         IN  IF BitAnd(w.bound, BOUND_LOWER) # 0 /\ v <= w.valueLower
             THEN [w EXCEPT !.bound = BitXor(w.bound, BOUND_LOWER),
                            !.valueLower = ToInt16(VALUE_NONE),
                            !.depthLower = ToInt16(DEPTH_NONE)]
             ELSE w
    ELSE e

\* TTEntry::update, lines 67-78: the UPPER side.
UpdateUpper(e, v, b, d) ==
    IF BitAnd(b, BOUND_UPPER) # 0
    THEN LET w == [e EXCEPT !.valueUpper = ToInt16(v), !.depthUpper = ToInt16(d)]
         IN  IF BitAnd(w.bound, BOUND_LOWER) # 0 /\ v < w.valueLower
             THEN [w EXCEPT !.bound = BitXor(w.bound, BOUND_LOWER),
                            !.valueLower = ToInt16(VALUE_NONE),
                            !.depthLower = ToInt16(DEPTH_NONE)]
             ELSE w
    ELSE e

\* UpdateLower that keeps an UPPER side the new lower value contradicts.
UpdateLowerKeepsUpper(e, v, b, d) ==
    IF BitAnd(b, BOUND_LOWER) # 0
    THEN [e EXCEPT !.valueLower = ToInt16(v), !.depthLower = ToInt16(d)]
    ELSE e

\* UpdateLower with >= for > in the test that invalidates the UPPER side.
UpdateLowerOffByOne(e, v, b, d) ==
    IF BitAnd(b, BOUND_LOWER) # 0
    THEN LET w == [e EXCEPT !.valueLower = ToInt16(v), !.depthLower = ToInt16(d)]
         IN  IF BitAnd(w.bound, BOUND_UPPER) # 0 /\ v >= w.valueUpper
             THEN [w EXCEPT !.bound = BitXor(w.bound, BOUND_UPPER),
                            !.valueUpper = ToInt16(VALUE_NONE),
                            !.depthUpper = ToInt16(DEPTH_NONE)]
             ELSE w
    ELSE e

\* TTEntry::update, lines 80-91: the LOWER side.
UpdateLower(e, v, b, d) ==
    IF BitAnd(b, BOUND_LOWER) # 0
    THEN LET w == [e EXCEPT !.valueLower = ToInt16(v), !.depthLower = ToInt16(d)]
         IN  IF BitAnd(w.bound, BOUND_UPPER) # 0 /\ v > w.valueUpper
             THEN [w EXCEPT !.bound = BitXor(w.bound, BOUND_UPPER),
                            !.valueUpper = ToInt16(VALUE_NONE),
                            !.depthUpper = ToInt16(DEPTH_NONE)]
             ELSE w
    ELSE e

\* update without the final accumulation of the bound (line 93).
EntryUpdateKeepsBound(e, v, b, d, m, g) ==
    LET e2 == UpdateHead(e, m, g)
        e3 == UpdateUpper(e2, v, b, d)
    IN  UpdateLower(e3, v, b, d)

\* TTEntry::update
EntryUpdate(e, v, b, d, m, g) ==
    LET e2 == UpdateHead(e, m, g)
        e3 == UpdateUpper(e2, v, b, d)
        e4 == UpdateLower(e3, v, b, d)
    IN  [e4 EXCEPT !.bound = BitOr(e4.bound, ToUint8(b))]

\* set_generation written as a save of an empty result.
EntrySetGenerationBySave(e, g) ==
    EntrySave(e.key32, VALUE_NONE, BOUND_NONE, DEPTH_NONE, e.move16, g)

\* TTEntry::set_generation
EntrySetGeneration(e, g) == [e EXCEPT !.generation8 = ToUint8(g)]

\* key() reading the neighbouring move16 field.
EntryKeyReadsMove(e) == e.move16

\* The read accessors.
EntryKey(e) == e.key32
EntryDepth(e) == e.depthLower
EntryDepthUpper(e) == e.depthUpper
EntryMove(e) == e.move16
EntryValue(e) == e.valueLower
EntryValueUpper(e) == e.valueUpper
EntryType(e) == e.bound
\* generation() reading the neighbouring uint8_t field.
EntryGenerationReadsBound(e) == e.bound
EntryGeneration(e) == e.generation8

(***************************************************************************)
(* State.                                                                  *)
(***************************************************************************)
VARIABLES
    size,        \* TranspositionTable::size, the number of clusters
    entries,     \* TranspositionTable::entries: cluster -> slot -> TTEntry
    generation,  \* TranspositionTable::generation (uint8_t)
    last,        \* history: the last operation, its arguments, the table before it
    stamp,       \* history: per record, `searches` at its last write, -1 if none
    cleared,     \* history: no store since the last clear
    searches,    \* history: the number of new_search calls so far
    steps,       \* history: the number of operations so far (run-length cap)
    threads      \* the search threads inside a call: thread -> its position and locals

vars == <<size, entries, generation, last, stamp, cleared, searches, steps, threads>>

Slots == 0 .. (ClusterSize - 1)
Clusters == 0 .. (size - 1)

\* TTCluster
ZeroCluster == [i \in Slots |-> ZeroEntry]

\* No entry: the null pointer probe() returns on a miss.
Nil == <<>>

(***************************************************************************)
(* TranspositionTable.                                                     *)
(***************************************************************************)
\* first_entry indexing with the high half of the key.
FirstEntryHighBits(posKey) == BitAnd(posKey.hi, size - 1)

\* first_entry masking with size instead of size - 1.
FirstEntryMaskIsSize(posKey) == BitAnd(ToUint32(posKey), size)

\* first_entry: the index of the key's cluster.
FirstEntry(posKey) == BitAnd(ToUint32(posKey), size - 1)

\* The fingerprint a key is stored and looked up under.
Key32(posKey) == ToUint32(posKey)

\* The slots of cluster c whose fingerprint is k32, in scan order.
Matching(tab, c, k32) == {i \in Slots : EntryKey(tab[c][i]) = k32}

MinOf(S) == CHOOSE x \in S : \A y \in S : x <= y

\* probe on table tab: the first record of the key's cluster with the key's
\* fingerprint.
ProbeIn(tab, posKey) ==
    LET c == FirstEntry(posKey)
        hits == Matching(tab, c, Key32(posKey))
    IN  IF hits = {} THEN Nil ELSE <<c, MinOf(hits)>>

Probe(posKey) == ProbeIn(entries, posKey)

\* The distance of a record's generation from the current one, in uint8_t.
GenDistance(e) == ToUint8(generation - EntryGeneration(e))

\* Record i is a better victim than record j: older, or as old and shallower.
Evictable(cl, i, j) ==
    \/ GenDistance(cl[i]) > GenDistance(cl[j])
    \/ /\ GenDistance(cl[i]) = GenDistance(cl[j])
       /\ EntryDepth(cl[i]) < EntryDepth(cl[j])

\* The records with the highest eviction score.
Victims(cl) == {i \in Slots : \A j \in Slots : ~Evictable(cl, j, i)}

\* store: the path taken and the slots it may write.
StorePath(posKey) ==
    LET c == FirstEntry(posKey)
        hits == Matching(entries, c, Key32(posKey))
        empty == Matching(entries, c, 0)
    IN  IF hits # {} THEN [path |-> "merge", slots |-> {MinOf(hits)}]
        ELSE IF empty # {} THEN [path |-> "initialize", slots |-> {MinOf(empty)}]
        ELSE [path |-> "evict", slots |-> Victims(entries[c])]

History(op, posKey, v, b, d, m, g, at, path) ==
    [op |-> op, key |-> posKey, v |-> v, b |-> b, d |-> d, m |-> m, g |-> g,
     at |-> at, path |-> path, old |-> entries]

\* store
Store(posKey, v, b, d, m) ==
    LET c == FirstEntry(posKey)
        sp == StorePath(posKey)
    IN  \E i \in sp.slots :
            /\ entries' = [entries EXCEPT ![c][i] =
                              IF sp.path = "merge"
                              THEN EntryUpdate(entries[c][i], v, b, d, m, generation)
                              ELSE EntrySave(Key32(posKey), v, b, d, m, generation)]
            /\ last' = History("store", posKey, v, b, d, m, generation, <<c, i>>, sp.path)
            /\ stamp' = [stamp EXCEPT ![c][i] = searches]
            /\ cleared' = FALSE
            /\ UNCHANGED <<size, generation, searches>>

\* probe (reads only)
ProbeOp(posKey) ==
    /\ last' = History("probe", posKey, 0, 0, 0, 0, 0, Probe(posKey), "")
    /\ UNCHANGED <<size, entries, generation, stamp, cleared, searches>>

\* refresh, on the entry a probe of posKey returned
Refresh(posKey) ==
    /\ Probe(posKey) # Nil
    /\ LET c == Probe(posKey)[1]
           i == Probe(posKey)[2]
       IN  /\ entries' = [entries EXCEPT ![c][i] =
                             EntrySetGeneration(entries[c][i], generation)]
           /\ last' = History("refresh", posKey, 0, 0, 0, 0, generation, <<c, i>>, "")
           /\ stamp' = [stamp EXCEPT ![c][i] = searches]
    /\ UNCHANGED <<size, generation, cleared, searches>>

\* new_search
NewSearch ==
    /\ generation' = ToUint8(generation + 1)
    /\ searches' = searches + 1
    /\ last' = History("new_search", NoKey, 0, 0, 0, 0, generation, Nil, "")
    /\ UNCHANGED <<size, entries, stamp, cleared>>

\* clear
Clear ==
    /\ entries' = [c \in Clusters |-> ZeroCluster]
    /\ stamp' = [c \in Clusters |-> [i \in Slots |-> -1]]
    /\ cleared' = TRUE
    /\ last' = History("clear", NoKey, 0, 0, 0, 0, 0, Nil, "")
    /\ UNCHANGED <<size, generation, searches>>

\* sizeof(TTEntry): the fields of lines 108-111 (4 + 2 + 1 + 1 + 4 * 2 bytes),
\* and sizeof(TTCluster).
TTEntryBytes == 16
ClusterBytes == ClusterSize * TTEntryBytes

\* set_size: the number of clusters for a budget in bytes, doubled from one
\* cluster while the doubled table still fits the budget.
RECURSIVE GrowSize(_, _)
GrowSize(n, budget) ==
    IF 2 * n * ClusterBytes <= budget THEN GrowSize(2 * n, budget) ELSE n

\* set_size that doubles while the table as it is, not the doubled one, fits.
NewSizeOvershoots(budget) == GrowSize(1, 2 * budget)

NewSize(budget) == GrowSize(1, budget)

\* set_size: a new, cleared array of NewSize(budget) clusters.
SetSize(budget) ==
    /\ size' = NewSize(budget)
    /\ entries' = [c \in 0 .. (size' - 1) |-> ZeroCluster]
    /\ stamp' = [c \in 0 .. (size' - 1) |-> [i \in Slots |-> -1]]
    /\ cleared' = TRUE
    /\ last' = History("set_size", NoKey, budget, 0, 0, 0, 0, Nil, "")
    /\ UNCHANGED <<generation, searches>>

(***************************************************************************)
(* The table in use: a cleared table of TableSize clusters, keys that      *)
(* spread over both clusters, share a fingerprint, or have fingerprint 0.  *)
(***************************************************************************)
LogTableSize == 1
TableSize == 2 ^ LogTableSize
MaxSearches == 1

KeyZeroFp == Key64(1, 0)
KeyAlias == Key64(1, 1)
Keys == {KeyZeroFp, Key64(0, 1), Key64(0, 2), KeyAlias}
Values == {30}
Depths == {8}
Bounds == {BOUND_UPPER, BOUND_LOWER}
Moves == {77}

InitTable(n) ==
    /\ size = n
    /\ entries = [c \in 0 .. (n - 1) |-> ZeroCluster]
    /\ stamp = [c \in 0 .. (n - 1) |-> [i \in Slots |-> -1]]
    /\ generation = 0
    /\ cleared = TRUE
    /\ searches = 0
    /\ steps = 0
    /\ threads = <<>>
    /\ last = [op |-> "init", key |-> NoKey, v |-> 0, b |-> 0, d |-> 0, m |-> 0, g |-> 0,
               at |-> Nil, path |-> "", old |-> [c \in 0 .. (n - 1) |-> ZeroCluster]]

Init == InitTable(TableSize)

StoreAny ==
    /\ \E k \in Keys, v \in Values, b \in Bounds, d \in Depths, m \in Moves :
           Store(k, v, b, d, m)
    /\ UNCHANGED <<steps, threads>>

ProbeAny == (\E k \in Keys : ProbeOp(k)) /\ UNCHANGED <<steps, threads>>

RefreshAny == (\E k \in Keys : Refresh(k)) /\ UNCHANGED <<steps, threads>>

NewSearchCapped == searches < MaxSearches /\ NewSearch /\ UNCHANGED <<steps, threads>>

ClearAny == Clear /\ UNCHANGED <<steps, threads>>

Next ==
    \/ StoreAny
    \/ ProbeAny
    \/ RefreshAny
    \/ NewSearchCapped
    \/ ClearAny

Spec == Init /\ [][Next]_vars

(***************************************************************************)
(* One TTEntry in use: save, update and set_generation called on the first *)
(* record of a cleared one-cluster table, with values on both sides of     *)
(* each other, two depths, and every Bound.  A move is drawn together with  *)
(* the generation it is stored at; 258 is a generation beyond uint8_t.     *)
(***************************************************************************)
\* The record the calls are made on.
Tte == entries[0][0]
OldTte == last.old[0][0]

TTEntrySave(k, v, b, d, m, g) ==
    /\ entries' = [entries EXCEPT ![0][0] = EntrySave(k, v, b, d, m, g)]
    /\ last' = History("save", Key64(0, k), v, b, d, m, g, <<0, 0>>, "")
    /\ stamp' = [stamp EXCEPT ![0][0] = searches]
    /\ cleared' = FALSE
    /\ UNCHANGED <<size, generation, searches>>

TTEntryUpdate(v, b, d, m, g) ==
    /\ entries' = [entries EXCEPT ![0][0] = EntryUpdate(entries[0][0], v, b, d, m, g)]
    /\ last' = History("update", Key64(0, EntryKey(entries[0][0])), v, b, d, m, g, <<0, 0>>, "")
    /\ stamp' = [stamp EXCEPT ![0][0] = searches]
    /\ cleared' = FALSE
    /\ UNCHANGED <<size, generation, searches>>

TTEntrySetGeneration(g) ==
    /\ entries' = [entries EXCEPT ![0][0] = EntrySetGeneration(entries[0][0], g)]
    /\ last' = History("set_generation", Key64(0, EntryKey(entries[0][0])), 0, 0, 0, 0, g, <<0, 0>>, "")
    /\ stamp' = [stamp EXCEPT ![0][0] = searches]
    /\ UNCHANGED <<size, generation, cleared, searches>>

EntryKeys == {4660}
EntryValues == {30, 50}
EntryDepths == {8, 10}
EntryBounds == {BOUND_NONE, BOUND_UPPER, BOUND_LOWER, BOUND_EXACT}
EntryStamps == {<<MOVE_NONE, 1>>, <<77, 258>>}
EntryGens == {1, 258}

InInt16(x) == -32768 <= x /\ x <= 32767

InitEntry == InitTable(1)

SaveAny ==
    /\ \E k \in EntryKeys, v \in EntryValues, b \in EntryBounds, d \in EntryDepths,
          s \in EntryStamps :
           TTEntrySave(k, v, b, d, s[1], s[2])
    /\ UNCHANGED <<steps, threads>>

UpdateAny ==
    /\ \E v \in EntryValues, b \in EntryBounds, d \in EntryDepths,
          s \in EntryStamps :
           TTEntryUpdate(v, b, d, s[1], s[2])
    /\ UNCHANGED <<steps, threads>>

SetGenerationAny == (\E g \in EntryGens : TTEntrySetGeneration(g)) /\ UNCHANGED <<steps, threads>>

NextEntry ==
    \/ SaveAny
    \/ UpdateAny
    \/ SetGenerationAny

SpecEntry == InitEntry /\ [][NextEntry]_vars

(***************************************************************************)
(* EXACT results over the 16-bit range and just beyond it: stores with     *)
(* bound EXACT into a cleared one-cluster table, and probes.               *)
(***************************************************************************)
ExactKeys == {Key64(0, 4660), Key64(1, 4660), Key64(0, 7)}
ExactValues == {-32768, 32767, 32768}
ExactDepths == {DEPTH_NONE, 32767, 32768}

InitExact == InitTable(1)

StoreExact ==
    /\ \E k \in ExactKeys, v \in ExactValues, d \in ExactDepths :
           Store(k, v, BOUND_EXACT, d, 77)
    /\ UNCHANGED <<steps, threads>>

ProbeExact == (\E k \in ExactKeys : ProbeOp(k)) /\ UNCHANGED <<steps, threads>>

NextExact ==
    \/ StoreExact
    \/ ProbeExact
    \/ ClearAny

SpecExact == InitExact /\ [][NextExact]_vars

(***************************************************************************)
(* Eviction: a one-cluster table whose cluster stores and refreshes have   *)
(* filled, after 256 searches, when the counter has wrapped to 0.  Each    *)
(* record is as save leaves it, written in the current search (generation  *)
(* 0) or in the one before (generation 255).  Then MaxEvictSteps stores,   *)
(* of a fifth position or of the position in the first slot.               *)
(***************************************************************************)
MaxEvictSteps == 1

SeedBounds == {BOUND_UPPER, BOUND_LOWER}
SeedDepths == {3, 20}
SeedGens == {0, 255}
Seeds == {EntrySave(0, 30, b, d, 77, g) : b \in SeedBounds, d \in SeedDepths, g \in SeedGens}
EvictKeys == {Key64(0, 1), Key64(0, 5)}

InitEvict ==
    /\ size = 1
    /\ generation = 0
    /\ \E cl \in [Slots -> Seeds] :
           entries = [c \in {0} |-> [i \in Slots |-> [cl[i] EXCEPT !.key32 = i + 1]]]
    /\ searches = 256
    /\ stamp = [c \in {0} |-> [i \in Slots |-> searches - GenDistance(entries[c][i])]]
    /\ cleared = FALSE
    /\ steps = 0
    /\ threads = <<>>
    /\ last = [op |-> "init", key |-> NoKey, v |-> 0, b |-> 0, d |-> 0, m |-> 0, g |-> 0,
               at |-> Nil, path |-> "", old |-> entries]

StoreEvict ==
    /\ steps < MaxEvictSteps
    /\ steps' = steps + 1
    /\ UNCHANGED threads
    /\ \E k \in EvictKeys, b \in SeedBounds, d \in SeedDepths :
           Store(k, 30, b, d, 77)

NextEvict == StoreEvict

SpecEvict == InitEvict /\ [][NextEvict]_vars

(***************************************************************************)
(* Aging: one position stored and refreshed in a one-cluster table while   *)
(* new_search runs up to MaxAdvances times, past the wrap of the uint8_t   *)
(* counter.                                                                *)
(***************************************************************************)
MaxAdvances == 258

AgingKey == Key64(0, 1)

InitAging == InitTable(1)

StoreAging == Store(AgingKey, 30, BOUND_LOWER, 8, 77) /\ UNCHANGED <<steps, threads>>

RefreshAging == Refresh(AgingKey) /\ UNCHANGED <<steps, threads>>

NewSearchAging == searches < MaxAdvances /\ NewSearch /\ UNCHANGED <<steps, threads>>

NextAging ==
    \/ StoreAging
    \/ RefreshAging
    \/ NewSearchAging

SpecAging == InitAging /\ [][NextAging]_vars

(***************************************************************************)
(* Concurrent stores.  The table is shared by the search threads without   *)
(* locks, so a store that overlaps another is the sequence of the          *)
(* statements of save or update, each a read or a write of the shared      *)
(* record; threads[t].pc is the line of tt.h thread t executes next, 0     *)
(* before its call, and the line of the closing brace once it returned.    *)
(***************************************************************************)
\* save without the assignment to move16.
SaveStepSkipsMove(e, pc, k, v, b, d, m, g) ==
    [pc |-> pc + 1,
     e  |-> CASE pc = 49 -> [e EXCEPT !.key32 = k]
              [] pc = 50 -> e
              [] pc = 51 -> [e EXCEPT !.bound = ToUint8(b)]
              [] pc = 52 -> [e EXCEPT !.generation8 = ToUint8(g)]
              [] pc = 53 -> [e EXCEPT !.valueUpper =
                                ToInt16(IF BitAnd(b, BOUND_UPPER) # 0 THEN v ELSE VALUE_NONE)]
              [] pc = 54 -> [e EXCEPT !.depthUpper =
                                ToInt16(IF BitAnd(b, BOUND_UPPER) # 0 THEN d ELSE DEPTH_NONE)]
              [] pc = 55 -> [e EXCEPT !.valueLower =
                                ToInt16(IF BitAnd(b, BOUND_LOWER) # 0 THEN v ELSE VALUE_NONE)]
              [] pc = 56 -> [e EXCEPT !.depthLower =
                                ToInt16(IF BitAnd(b, BOUND_LOWER) # 0 THEN d ELSE DEPTH_NONE)]]

\* TTEntry::save, the statement at line pc (49..56) on record e: the record
\* it leaves and the line that follows.
SaveStep(e, pc, k, v, b, d, m, g) ==
    [pc |-> pc + 1,
     e  |-> CASE pc = 49 -> [e EXCEPT !.key32 = k]
              [] pc = 50 -> [e EXCEPT !.move16 = ToUint16(m)]
              [] pc = 51 -> [e EXCEPT !.bound = ToUint8(b)]
              [] pc = 52 -> [e EXCEPT !.generation8 = ToUint8(g)]
              [] pc = 53 -> [e EXCEPT !.valueUpper =
                                ToInt16(IF BitAnd(b, BOUND_UPPER) # 0 THEN v ELSE VALUE_NONE)]
              [] pc = 54 -> [e EXCEPT !.depthUpper =
                                ToInt16(IF BitAnd(b, BOUND_UPPER) # 0 THEN d ELSE DEPTH_NONE)]
              [] pc = 55 -> [e EXCEPT !.valueLower =
                                ToInt16(IF BitAnd(b, BOUND_LOWER) # 0 THEN v ELSE VALUE_NONE)]
              [] pc = 56 -> [e EXCEPT !.depthLower =
                                ToInt16(IF BitAnd(b, BOUND_LOWER) # 0 THEN d ELSE DEPTH_NONE)]]

\* TTEntry::update, the statement or test at line pc (61..93) on record e:
\* the record it leaves and the line that follows.
UpdateStep(e, pc, v, b, d, m, g) ==
    CASE pc = 61 -> [pc |-> 62, e |-> [e EXCEPT !.move16 = ToUint16(m)]]
      [] pc = 62 -> [pc |-> 64, e |-> [e EXCEPT !.generation8 = ToUint8(g)]]
      [] pc = 64 -> [pc |-> 67,
                     e  |-> IF e.bound = BOUND_EXACT
                            THEN [e EXCEPT !.bound = BitOr(BOUND_UPPER, BOUND_LOWER)]
                            ELSE e]
      [] pc = 67 -> [pc |-> IF BitAnd(b, BOUND_UPPER) # 0 THEN 69 ELSE 80, e |-> e]
      [] pc = 69 -> [pc |-> 70, e |-> [e EXCEPT !.valueUpper = ToInt16(v)]]
      [] pc = 70 -> [pc |-> 72, e |-> [e EXCEPT !.depthUpper = ToInt16(d)]]
      [] pc = 72 -> [pc |-> IF BitAnd(e.bound, BOUND_LOWER) # 0 /\ v < e.valueLower
                            THEN 74 ELSE 80,
                     e  |-> e]
      [] pc = 74 -> [pc |-> 75, e |-> [e EXCEPT !.bound = BitXor(e.bound, BOUND_LOWER)]]
      [] pc = 75 -> [pc |-> 76, e |-> [e EXCEPT !.valueLower = ToInt16(VALUE_NONE)]]
      [] pc = 76 -> [pc |-> 80, e |-> [e EXCEPT !.depthLower = ToInt16(DEPTH_NONE)]]
      [] pc = 80 -> [pc |-> IF BitAnd(b, BOUND_LOWER) # 0 THEN 82 ELSE 93, e |-> e]
      [] pc = 82 -> [pc |-> 83, e |-> [e EXCEPT !.valueLower = ToInt16(v)]]
      [] pc = 83 -> [pc |-> 85, e |-> [e EXCEPT !.depthLower = ToInt16(d)]]
      [] pc = 85 -> [pc |-> IF BitAnd(e.bound, BOUND_UPPER) # 0 /\ v > e.valueUpper
                            THEN 87 ELSE 93,
                     e  |-> e]
      [] pc = 87 -> [pc |-> 88, e |-> [e EXCEPT !.bound = BitXor(e.bound, BOUND_UPPER)]]
      [] pc = 88 -> [pc |-> 89, e |-> [e EXCEPT !.valueUpper = ToInt16(VALUE_NONE)]]
      [] pc = 89 -> [pc |-> 93, e |-> [e EXCEPT !.depthUpper = ToInt16(DEPTH_NONE)]]
      [] pc = 93 -> [pc |-> 94, e |-> [e EXCEPT !.bound = BitOr(e.bound, ToUint8(b))]]

\* A thread that has not made its call.
IdleThread ==
    [pc |-> 0, key |-> NoKey, v |-> 0, b |-> 0, d |-> 0, m |-> 0, g |-> 0, at |-> Nil]

InSave(t) == threads[t].pc \in 49 .. 56
InUpdate(t) == threads[t].pc \in 61 .. 93
Returned(t) == threads[t].pc \in {57, 94}

\* store, up to the call of save or update: thread t scans the key's cluster
\* and settles on the record it will write.
ThreadStore(t, posKey, v, b, d, m) ==
    LET c == FirstEntry(posKey)
        sp == StorePath(posKey)
    IN  /\ threads[t].pc = 0
        /\ \E i \in sp.slots :
               threads' = [threads EXCEPT ![t] =
                   [pc |-> IF sp.path = "merge" THEN 61 ELSE 49,
                    key |-> posKey, v |-> v, b |-> b, d |-> d, m |-> m,
                    g |-> generation, at |-> <<c, i>>]]
        /\ cleared' = FALSE
        /\ UNCHANGED <<size, entries, generation, last, stamp, searches>>

\* Thread t executes the next statement of its save.
ThreadSave(t) ==
    LET w == threads[t]
        r == SaveStep(entries[w.at[1]][w.at[2]], w.pc, Key32(w.key), w.v, w.b, w.d, w.m, w.g)
    IN  /\ InSave(t)
        /\ entries' = [entries EXCEPT ![w.at[1]][w.at[2]] = r.e]
        /\ threads' = [threads EXCEPT ![t].pc = r.pc]
        /\ UNCHANGED <<size, generation, last, stamp, cleared, searches>>

\* Thread t executes the next statement of its update.
ThreadUpdate(t) ==
    LET w == threads[t]
        r == UpdateStep(entries[w.at[1]][w.at[2]], w.pc, w.v, w.b, w.d, w.m, w.g)
    IN  /\ InUpdate(t)
        /\ entries' = [entries EXCEPT ![w.at[1]][w.at[2]] = r.e]
        /\ threads' = [threads EXCEPT ![t].pc = r.pc]
        /\ UNCHANGED <<size, generation, last, stamp, cleared, searches>>

\* probe by thread t, which keeps the TTEntry* of a hit for its refresh.
ThreadProbe(t, posKey) ==
    /\ threads[t].pc = 0
    /\ Probe(posKey) # Nil
    /\ threads' = [threads EXCEPT ![t] =
           [IdleThread EXCEPT !.pc = 171, !.key = posKey, !.at = Probe(posKey)]]
    /\ last' = History("probe", posKey, 0, 0, 0, 0, 0, Probe(posKey), "")
    /\ UNCHANGED <<size, entries, generation, stamp, cleared, searches>>

\* refresh by thread t, on the TTEntry* its probe returned.
ThreadRefresh(t) ==
    LET w == threads[t]
    IN  /\ w.pc = 171
        /\ entries' = [entries EXCEPT ![w.at[1]][w.at[2]] =
                          EntrySetGeneration(entries[w.at[1]][w.at[2]], generation)]
        /\ threads' = [threads EXCEPT ![t] = IdleThread]
        /\ last' = History("refresh", w.key, 0, 0, 0, 0, generation, w.at, "")
        /\ stamp' = [stamp EXCEPT ![w.at[1]][w.at[2]] = searches]
        /\ UNCHANGED <<size, generation, cleared, searches>>

(***************************************************************************)
(* Two threads store results of the same position into a cleared           *)
(* one-cluster table, each once, their statements interleaved.             *)
(***************************************************************************)
RaceThreads == {1, 2}
RaceKey == Key64(0, 4660)
RaceResults ==
    {[v |-> 30, b |-> BOUND_UPPER, d |-> 8, m |-> 77],
     [v |-> 50, b |-> BOUND_LOWER, d |-> 10, m |-> 78],
     [v |-> 40, b |-> BOUND_EXACT, d |-> 9, m |-> 79]}

InitRace ==
    /\ size = 1
    /\ entries = [c \in {0} |-> ZeroCluster]
    /\ stamp = [c \in {0} |-> [i \in Slots |-> -1]]
    /\ generation = 0
    /\ cleared = TRUE
    /\ searches = 0
    /\ steps = 0
    /\ threads = [t \in RaceThreads |-> IdleThread]
    /\ last = [op |-> "init", key |-> NoKey, v |-> 0, b |-> 0, d |-> 0, m |-> 0, g |-> 0,
               at |-> Nil, path |-> "", old |-> [c \in {0} |-> ZeroCluster]]

StoreRace ==
    /\ \E t \in RaceThreads, r \in RaceResults : ThreadStore(t, RaceKey, r.v, r.b, r.d, r.m)
    /\ UNCHANGED steps

SaveRace == (\E t \in RaceThreads : ThreadSave(t)) /\ UNCHANGED steps

UpdateRace == (\E t \in RaceThreads : ThreadUpdate(t)) /\ UNCHANGED steps

NextRace ==
    \/ StoreRace
    \/ SaveRace
    \/ UpdateRace

SpecRace == InitRace /\ [][NextRace]_vars

(***************************************************************************)
(* Resizing: set_size called with budgets around the size of one, two and  *)
(* four clusters, between stores, refreshes, clears and new searches of a  *)
(* table that starts with one cluster.                                     *)
(***************************************************************************)
Budgets == {0, 63, 64, 127, 128, 255, 256}
SizeKeys == {Key64(1, 6), Key64(2, 4661)}

InitSize == InitTable(1)

SetSizeAny == (\E budget \in Budgets : SetSize(budget)) /\ UNCHANGED <<steps, threads>>

StoreSize ==
    /\ \E k \in SizeKeys : Store(k, 30, BOUND_LOWER, 8, 77)
    /\ UNCHANGED <<steps, threads>>

RefreshSize == (\E k \in SizeKeys : Refresh(k)) /\ UNCHANGED <<steps, threads>>

NextSize ==
    \/ SetSizeAny
    \/ StoreSize
    \/ RefreshSize
    \/ NewSearchCapped
    \/ ClearAny

SpecSize == InitSize /\ [][NextSize]_vars

(***************************************************************************)
(* Reading back: a one-cluster table with three stored positions and one   *)
(* unused record, then up to MaxReadBackSteps stores, of a stored position *)
(* (a merge), of new positions (the unused record, then a victim) and of a *)
(* position whose fingerprint is 0, with values at both ends of int16_t    *)
(* and every bound a search reports.                                       *)
(***************************************************************************)
MaxReadBackSteps == 3

ReadBackKeys == {Key64(0, 1), Key64(0, 5), KeyZeroFp}
ReadBackValues == {-32768, 32767}
ReadBackBounds == {BOUND_UPPER, BOUND_LOWER, BOUND_EXACT}

InitReadBack ==
    /\ size = 1
    /\ generation = 0
    /\ entries = [c \in {0} |->
                     [i \in Slots |->
                         IF i = 3 THEN ZeroEntry
                         ELSE EntrySave(i + 1, 50, BOUND_LOWER, 8 + i, 77, 0)]]
    /\ searches = 0
    /\ stamp = [c \in {0} |-> [i \in Slots |-> IF i = 3 THEN -1 ELSE 0]]
    /\ cleared = FALSE
    /\ steps = 0
    /\ threads = <<>>
    /\ last = [op |-> "init", key |-> NoKey, v |-> 0, b |-> 0, d |-> 0, m |-> 0, g |-> 0,
               at |-> Nil, path |-> "", old |-> entries]

StoreReadBack ==
    /\ steps < MaxReadBackSteps
    /\ steps' = steps + 1
    /\ UNCHANGED threads
    /\ \E k \in ReadBackKeys, v \in ReadBackValues, b \in ReadBackBounds :
           Store(k, v, b, 12, 78)

NextReadBack == StoreReadBack

SpecReadBack == InitReadBack /\ [][NextReadBack]_vars

(***************************************************************************)
(* Filling up: five positions stored into a cleared one-cluster table,     *)
(* which holds four, with refreshes, new searches and clears in between.   *)
(***************************************************************************)
FillKeys == {Key64(0, 1), Key64(0, 2), Key64(0, 3), Key64(1, 4), Key64(1, 5)}

InitFill == InitTable(1)

StoreFill ==
    /\ \E k \in FillKeys : Store(k, 30, BOUND_LOWER, 8, 77)
    /\ UNCHANGED <<steps, threads>>

RefreshFill == (\E k \in FillKeys : Refresh(k)) /\ UNCHANGED <<steps, threads>>

NextFill ==
    \/ StoreFill
    \/ RefreshFill
    \/ NewSearchCapped
    \/ ClearAny

SpecFill == InitFill /\ [][NextFill]_vars

(***************************************************************************)
(* A handle held across stores: in a one-cluster table with four stored    *)
(* positions, the first the shallowest, one thread probes and later        *)
(* refreshes the record its probe returned, while the stores and new       *)
(* searches of the other threads run in between.                           *)
(***************************************************************************)
HandleThreads == {1}
ProbedKeys == {Key64(0, 1), Key64(0, 5)}
StoredKeys == {Key64(0, 1), Key64(0, 5), Key64(0, 6)}

InitHandle ==
    /\ size = 1
    /\ generation = 0
    /\ entries = [c \in {0} |->
                     [i \in Slots |-> EntrySave(i + 1, 50, BOUND_LOWER, 8 + i, 77, 0)]]
    /\ searches = 0
    /\ stamp = [c \in {0} |-> [i \in Slots |-> 0]]
    /\ cleared = FALSE
    /\ steps = 0
    /\ threads = [t \in HandleThreads |-> IdleThread]
    /\ last = [op |-> "init", key |-> NoKey, v |-> 0, b |-> 0, d |-> 0, m |-> 0, g |-> 0,
               at |-> Nil, path |-> "", old |-> entries]

ProbeHandle ==
    /\ \E t \in HandleThreads, k \in ProbedKeys : ThreadProbe(t, k)
    /\ UNCHANGED steps

RefreshHandle == (\E t \in HandleThreads : ThreadRefresh(t)) /\ UNCHANGED steps

StoreHandle ==
    /\ \E k \in StoredKeys, d \in {7, 12} : Store(k, 30, BOUND_LOWER, d, 78)
    /\ UNCHANGED <<steps, threads>>

NextHandle ==
    \/ ProbeHandle
    \/ RefreshHandle
    \/ StoreHandle
    \/ NewSearchCapped

SpecHandle == InitHandle /\ [][NextHandle]_vars

(***************************************************************************)
(* Properties.                                                             *)
(***************************************************************************)
HasUpper(e) == BitAnd(e.bound, BOUND_UPPER) # 0
HasLower(e) == BitAnd(e.bound, BOUND_LOWER) # 0
UpperIsNone(e) == e.valueUpper = VALUE_NONE /\ e.depthUpper = DEPTH_NONE
LowerIsNone(e) == e.valueLower = VALUE_NONE /\ e.depthLower = DEPTH_NONE

\* C1: update with bound LOWER on a record whose UPPER bit is set stores
\* (vl, dl) as the lower pair and sets LOWER; if vl > vu it clears UPPER and
\* resets the upper pair to (VALUE_NONE, DEPTH_NONE); if vl <= vu the UPPER
\* bit and the upper pair stay as they were.
C1_MergeLowerOntoUpper ==
    (last.op = "update" /\ last.b = BOUND_LOWER /\ HasUpper(OldTte)) =>
        /\ Tte.valueLower = last.v
        /\ Tte.depthLower = last.d
        /\ HasLower(Tte)
        /\ IF last.v > OldTte.valueUpper
           THEN ~HasUpper(Tte) /\ UpperIsNone(Tte)
           ELSE /\ HasUpper(Tte)
                /\ Tte.valueUpper = OldTte.valueUpper
                /\ Tte.depthUpper = OldTte.depthUpper

\* A LOWER update has just invalidated the UPPER side of a record that held
\* both sides.
C1_Witness ==
    /\ last.op = "update" /\ last.b = BOUND_LOWER
    /\ HasUpper(OldTte) /\ HasLower(OldTte)
    /\ last.v > OldTte.valueUpper
    /\ Tte.bound = BOUND_LOWER

\* The record before the last operation is what save leaves for bound LOWER.
OldIsLowerOnly == OldTte.bound = BOUND_LOWER /\ UpperIsNone(OldTte)

\* C2 as stated: an UPPER update with vu <= vl on a record saved with bound
\* LOWER, pair (vl, dl), leaves both bits set, the lower pair unchanged, the
\* upper pair (vu, du), the new move and the new generation.
C2_AsStated ==
    (last.op = "update" /\ last.b = BOUND_UPPER /\ OldIsLowerOnly
        /\ last.v <= OldTte.valueLower) =>
        /\ HasUpper(Tte) /\ HasLower(Tte)
        /\ Tte.valueLower = OldTte.valueLower
        /\ Tte.depthLower = OldTte.depthLower
        /\ Tte.valueUpper = last.v
        /\ Tte.depthUpper = last.d
        /\ Tte.move16 = last.m
        /\ Tte.generation8 = last.g % 256

\* C2 amended: the same update stores (vu, du) as the upper pair, sets UPPER,
\* the new move and the new generation; the lower side is kept, unchanged,
\* exactly when vu >= vl; when vu < vl the LOWER bit is cleared and the lower
\* pair is reset to (VALUE_NONE, DEPTH_NONE), leaving an UPPER-only record.
C2_UpperOntoLowerOnly ==
    (last.op = "update" /\ last.b = BOUND_UPPER /\ OldIsLowerOnly) =>
        /\ HasUpper(Tte)
        /\ Tte.valueUpper = last.v
        /\ Tte.depthUpper = last.d
        /\ Tte.move16 = last.m
        /\ Tte.generation8 = last.g % 256
        /\ IF last.v < OldTte.valueLower
           THEN Tte.bound = BOUND_UPPER /\ LowerIsNone(Tte)
           ELSE /\ Tte.bound = BOUND_EXACT
                /\ Tte.valueLower = OldTte.valueLower
                /\ Tte.depthLower = OldTte.depthLower

\* The scenario of the claim: LOWER (50, 10) saved, then UPPER (30, 8) merged.
C2_Witness ==
    /\ last.op = "update" /\ last.b = BOUND_UPPER /\ OldIsLowerOnly
    /\ OldTte.valueLower = 50 /\ OldTte.depthLower = 10
    /\ last.v = 30 /\ last.d = 8
    /\ Tte.bound = BOUND_UPPER

\* The cluster the low-order bits of a key select.
ClusterOf(posKey) == posKey.lo % size

\* C3: when a record of the key's cluster carries the key's fingerprint,
\* store merges into such a record in place: the record keeps its
\* fingerprint and becomes the merge of its old content with the arguments,
\* and every other record of every cluster is unchanged.
C3_StoreMergesInPlace ==
    LET c == ClusterOf(last.key)
        fp == last.key.lo
    IN  (last.op = "store" /\ \E i \in Slots : last.old[c][i].key32 = fp) =>
            \E i \in Slots :
                /\ last.old[c][i].key32 = fp
                /\ entries[c][i].key32 = fp
                /\ entries = [last.old EXCEPT ![c][i] =
                       EntryUpdate(last.old[c][i], last.v, last.b, last.d, last.m, last.g)]

\* A store has merged into a record of a stored position while its cluster
\* held another stored position, and the merge changed the record.
C3_Witness ==
    LET c == ClusterOf(last.key)
        fp == last.key.lo
    IN  /\ last.op = "store" /\ fp # 0
        /\ \E i, j \in Slots :
               /\ i # j
               /\ last.old[c][i].key32 = fp
               /\ last.old[c][j].bound # BOUND_NONE
               /\ entries[c][i] # last.old[c][i]

\* The last operation was a store of a key that no record of its cluster
\* carried, into a cluster without a zero fingerprint.
StoredByEviction ==
    LET c == ClusterOf(last.key)
    IN  /\ last.op = "store"
        /\ \A i \in Slots : last.old[c][i].key32 \notin {0, last.key.lo}

\* The generation distance of record e at the time of the last operation.
DistanceThen(e) == (last.g - e.generation8) % 256

\* C4: a store that finds its cluster full and without a match overwrites
\* exactly one record, with the key's record; no record of the cluster was
\* at a strictly larger generation distance than the one overwritten,
\* whatever the depths, and among the records at its distance none had a
\* smaller depth.
C4_StaleFirstEviction ==
    LET c == ClusterOf(last.key)
    IN  StoredByEviction =>
            \E i \in Slots :
                /\ entries[c][i].key32 = last.key.lo
                /\ \A cc \in Clusters, j \in Slots :
                       (cc # c \/ j # i) => entries[cc][j] = last.old[cc][j]
                /\ \A j \in Slots :
                       /\ DistanceThen(last.old[c][j]) <= DistanceThen(last.old[c][i])
                       /\ DistanceThen(last.old[c][j]) = DistanceThen(last.old[c][i])
                              => last.old[c][i].depthLower <= last.old[c][j].depthLower

\* A store has evicted a deep record of the previous generation from a
\* cluster that also held a shallower record of the current generation.
C4_Witness ==
    LET c == ClusterOf(last.key)
    IN  /\ StoredByEviction
        /\ \E i, j \in Slots :
               /\ entries[c][i] # last.old[c][i]
               /\ entries[c][j] = last.old[c][j]
               /\ DistanceThen(last.old[c][i]) > DistanceThen(last.old[c][j])
               /\ last.old[c][i].depthLower > last.old[c][j].depthLower
               /\ HasLower(last.old[c][i]) /\ HasLower(last.old[c][j])

\* The depth of the result a record caches: of the side whose bit is set,
\* the deeper of the two when both are.
ResultDepth(e) ==
    IF HasLower(e) /\ HasUpper(e)
    THEN (IF e.depthLower >= e.depthUpper THEN e.depthLower ELSE e.depthUpper)
    ELSE IF HasLower(e) THEN e.depthLower
    ELSE IF HasUpper(e) THEN e.depthUpper
    ELSE DEPTH_NONE

C6_ExactRoundTrip ==
    LET c == ClusterOf(last.key)
    IN  (/\ last.op = "store" /\ last.b = BOUND_EXACT
         /\ InInt16(last.v) /\ InInt16(last.d)
         /\ \A i \in Slots : last.old[c][i].key32 # last.key.lo
         /\ \E i \in Slots : last.old[c][i] = ZeroEntry) =>
            /\ Probe(last.key) # Nil
            /\ LET tte == entries[Probe(last.key)[1]][Probe(last.key)[2]]
               IN  /\ BitAnd(EntryType(tte), BOUND_UPPER) # 0
                   /\ BitAnd(EntryType(tte), BOUND_LOWER) # 0
                   /\ EntryValue(tte) = last.v
                   /\ EntryDepth(tte) = last.d
                   /\ EntryValueUpper(tte) = last.v
                   /\ EntryDepthUpper(tte) = last.d

\* An EXACT result with the most negative value has been initialized in the
\* second slot of the cluster and is found there.
C6_Witness ==
    /\ last.op = "store" /\ last.b = BOUND_EXACT /\ last.path = "initialize"
    /\ last.v = -32768 /\ last.d = DEPTH_NONE
    /\ last.old[0][1] = ZeroEntry
    /\ Probe(last.key) = <<0, 1>>

\* C7: while no store has followed the last clear, probe misses for every
\* key, keys whose low 32 bits are zero included.
C7_ProbeMissesAfterClear == cleared => \A k \in Keys : Probe(k) = Nil

\* C8: a record last written (by save, update or set_generation) k calls
\* of new_search ago is at generation distance k mod 256 from the table's
\* generation; new_search advances the table's generation by one, modulo
\* 256, and changes no record.
C8_Aging ==
    /\ \A c \in Clusters, i \in Slots :
           stamp[c][i] # -1 =>
               (generation - entries[c][i].generation8) % 256
                   = (searches - stamp[c][i]) % 256
    /\ last.op = "new_search" =>
           /\ entries = last.old
           /\ generation = (last.g + 1) % 256

\* new_search has run at least 256 times since the record was last written.
C8_Witness ==
    /\ last.op = "new_search"
    /\ stamp[0][0] # -1
    /\ searches - stamp[0][0] >= 256
    /\ entries[0][0].key32 = AgingKey.lo

\* C9: refresh sets the generation of the record it is given to the table's
\* current generation and changes nothing else: not another field of the
\* record, not another record, not the table's generation.
C9_RefreshOnlyStamps ==
    last.op = "refresh" =>
        LET at == ProbeIn(last.old, last.key)
        IN  /\ at # Nil
            /\ entries[at[1]][at[2]].generation8 = generation
            /\ entries = [last.old EXCEPT ![at[1]][at[2]].generation8 = generation]
            /\ generation = last.g

\* A refresh has moved the generation of a stored record.
C9_Witness ==
    /\ last.op = "refresh"
    /\ last.key.lo # 0
    /\ entries # last.old
    /\ entries[last.at[1]][last.at[2]].bound # BOUND_NONE

\* C10: every record whose UPPER bit is clear holds (VALUE_NONE, DEPTH_NONE)
\* as its upper pair, and every record whose LOWER bit is clear holds it as
\* its lower pair.
C10_SentinelInvariant ==
    \A c \in Clusters, i \in Slots :
        /\ ~HasUpper(entries[c][i]) => UpperIsNone(entries[c][i])
        /\ ~HasLower(entries[c][i]) => LowerIsNone(entries[c][i])

\* The record both threads of SpecRace write, and what they are storing.
RaceTte == entries[0][0]
RaceFields(f) == {threads[t][f] : t \in RaceThreads}
BothReturned == \A t \in RaceThreads : Returned(t)

\* What the two stores leave when one runs after the other has returned:
\* the first initializes the record, the second merges into it.
SequentialResults ==
    {EntryUpdate(EntrySave(Key32(RaceKey), threads[t].v, threads[t].b, threads[t].d,
                           threads[t].m, threads[t].g),
                 threads[u].v, threads[u].b, threads[u].d, threads[u].m, threads[u].g) :
        <<t, u>> \in {<<1, 2>>, <<2, 1>>}}

\* C11: two stores of one position that overlap write one record field by
\* field.  Once both have returned the record carries the position's
\* fingerprint and every field holds what one of the two calls wrote (its
\* move, its value, its depth, or the none value of a side), with at least
\* one bound bit among those the calls named; nothing ties the fields to
\* the same call, so the record need not be one that either sequential
\* order of the two stores leaves (C11_Witness).
C11_TornRecord ==
    BothReturned =>
        /\ RaceTte.key32 = Key32(RaceKey)
        /\ RaceTte.move16 \in RaceFields("m")
        /\ RaceTte.generation8 = generation
        /\ RaceTte.valueUpper \in RaceFields("v") \cup {VALUE_NONE}
        /\ RaceTte.valueLower \in RaceFields("v") \cup {VALUE_NONE}
        /\ RaceTte.depthUpper \in RaceFields("d") \cup {DEPTH_NONE}
        /\ RaceTte.depthLower \in RaceFields("d") \cup {DEPTH_NONE}
        /\ RaceTte.bound # BOUND_NONE
        /\ \E t, u \in RaceThreads :
               BitOr(RaceTte.bound, BitOr(threads[t].b, threads[u].b))
                   = BitOr(threads[t].b, threads[u].b)
        /\ \A i \in Slots \ {0} : entries[0][i] = ZeroEntry

\* Both stores have returned and left a record with the position's
\* fingerprint, the move of the first thread and the lower bound of the
\* second, that neither sequential order of the two stores leaves.
C11_Witness ==
    /\ BothReturned
    /\ RaceTte.key32 = Key32(RaceKey)
    /\ threads[1].m # threads[2].m
    /\ RaceTte.move16 = threads[1].m
    /\ HasLower(RaceTte)
    /\ RaceTte.valueLower = threads[2].v /\ RaceTte.depthLower = threads[2].d
    /\ RaceTte \notin SequentialResults

\* n is a power of two.
IsPowerOfTwo(n) == \E k \in 0 .. 20 : n = 2 ^ k

\* C12: after set_size(budget) the number of clusters is a power of two;
\* when the budget pays for at least one cluster it is the largest power
\* of two whose clusters fit the budget; when the budget is smaller than
\* one cluster it is exactly 1; it is never 0, and the table holds that
\* many clusters.
C12_Sizing ==
    /\ size >= 1
    /\ IsPowerOfTwo(size)
    /\ DOMAIN entries = 0 .. (size - 1)
    /\ last.op = "set_size" =>
           /\ last.v >= ClusterBytes =>
                  /\ size * ClusterBytes <= last.v
                  /\ \A k \in 0 .. 20 : 2 ^ k * ClusterBytes <= last.v => 2 ^ k <= size
           /\ last.v < ClusterBytes => size = 1

\* set_size with a budget one byte short of a cluster has shrunk a table of
\* four clusters to one.
C12_Witness ==
    /\ last.op = "set_size"
    /\ last.v = ClusterBytes - 1
    /\ DOMAIN last.old = 0 .. 3
    /\ size = 1

\* C13: for every key and every number of clusters set_size produces,
\* first_entry selects the cluster numbered by the low-order bits of the key
\* under the mask size - 1, a cluster of the table; and while size stays the
\* same the cluster of a key stays the same, whatever store, refresh, clear
\* or new_search does in between.
C13_Addressing ==
    /\ [](\A k \in SizeKeys :
              /\ FirstEntry(k) = ToUint32(k) % size
              /\ FirstEntry(k) \in Clusters)
    /\ [][size' = size => \A k \in SizeKeys : FirstEntry(k)' = FirstEntry(k)]_vars

\* In a table of four clusters a refresh has found, in the cluster the low
\* two bits of its key select, the record a store put there before the last
\* new_search.
C13_Witness ==
    /\ size = 4
    /\ last.op = "refresh"
    /\ last.key = Key64(2, 4661)
    /\ last.at = <<1, 0>>
    /\ FirstEntry(last.key) = 1
    /\ last.old[1][0].generation8 # generation

\* C14: update with bound UPPER on a record whose LOWER bit is set, with
\* stored lower value vl, stores (vu, du) as the upper pair and sets UPPER;
\* if vl > vu it clears LOWER and resets the lower pair to (VALUE_NONE,
\* DEPTH_NONE); otherwise the LOWER bit and the lower pair stay as they were.
C14_MergeUpperOntoLower ==
    (last.op = "update" /\ last.b = BOUND_UPPER /\ HasLower(OldTte)) =>
        /\ Tte.valueUpper = last.v
        /\ Tte.depthUpper = last.d
        /\ HasUpper(Tte)
        /\ IF OldTte.valueLower > last.v
           THEN ~HasLower(Tte) /\ LowerIsNone(Tte)
           ELSE /\ HasLower(Tte)
                /\ Tte.valueLower = OldTte.valueLower
                /\ Tte.depthLower = OldTte.depthLower

\* An UPPER update has invalidated the LOWER side of a record that held
\* both sides, and replaced its upper pair.
C14_Witness ==
    /\ last.op = "update" /\ last.b = BOUND_UPPER
    /\ HasUpper(OldTte) /\ HasLower(OldTte)
    /\ OldTte.valueLower > last.v
    /\ OldTte.depthUpper # last.d
    /\ Tte.bound = BOUND_UPPER
    /\ LowerIsNone(Tte)

\* C15: update always overwrites the move and the generation: after
\* update(v, b, d, m, g) the record's move is m and its generation is
\* g mod 256, for every bound b, BOUND_NONE included, and every move m,
\* MOVE_NONE included (a move the record held is not kept).
C15_MoveAndGenerationOverwritten ==
    last.op = "update" =>
        /\ EntryMove(Tte) = last.m
        /\ EntryGeneration(Tte) = last.g % 256

\* An update with bound BOUND_NONE and move MOVE_NONE has erased the move of
\* a record and moved its generation.
C15_Witness ==
    /\ last.op = "update" /\ last.b = BOUND_NONE /\ last.m = MOVE_NONE
    /\ OldTte.move16 = 77
    /\ OldTte.generation8 # last.g % 256
    /\ Tte.move16 = MOVE_NONE
    /\ OldTte.bound # BOUND_NONE

\* The record in slot i of cluster c lost what it held in the last
\* operation: it held a result and now has another fingerprint or no bound
\* bit.
Discarded(c, i) ==
    /\ last.old[c][i].bound # BOUND_NONE
    /\ \/ entries[c][i].key32 # last.old[c][i].key32
       \/ entries[c][i].bound = BOUND_NONE

\* C16: a store that merges never empties a record and never changes its
\* fingerprint: a record with a bound bit set before the merge has one set
\* after it; and a record loses what it holds only in clear (or set_size)
\* or when a store picks it as the victim of an eviction.
C16_MergeNeverEmpties ==
    /\ (last.op = "store" /\ last.path = "merge") =>
           LET old == last.old[last.at[1]][last.at[2]]
               tte == entries[last.at[1]][last.at[2]]
           IN  /\ EntryKey(tte) = EntryKey(old)
               /\ EntryType(old) # BOUND_NONE => EntryType(tte) # BOUND_NONE
    /\ \A c \in Clusters, i \in Slots :
           Discarded(c, i) =>
               \/ last.op \in {"clear", "set_size"}
               \/ last.op = "store" /\ last.path = "evict"

\* C17: right after store(key, v, b, d, m) with b one of UPPER, LOWER and
\* EXACT and v, d that fit 16 signed bits, probe(key) hits a record whose
\* type has every bit of b and whose pair on each side b names is (v, d),
\* whether the store merged, initialized an unused record or evicted, and
\* whatever the record held before.
C17_ReadYourWrites ==
    (/\ last.op = "store"
     /\ last.b \in {BOUND_UPPER, BOUND_LOWER, BOUND_EXACT}
     /\ InInt16(last.v) /\ InInt16(last.d)) =>
        /\ Probe(last.key) # Nil
        /\ LET tte == entries[Probe(last.key)[1]][Probe(last.key)[2]]
           IN  /\ BitAnd(EntryType(tte), last.b) = last.b
               /\ BitAnd(last.b, BOUND_UPPER) # 0 =>
                      EntryValueUpper(tte) = last.v /\ EntryDepthUpper(tte) = last.d
               /\ BitAnd(last.b, BOUND_LOWER) # 0 =>
                      EntryValue(tte) = last.v /\ EntryDepth(tte) = last.d

\* A store with bound EXACT has merged into a record whose stored lower value
\* exceeded the new value; the record was initialized by an earlier store,
\* and another store has since evicted the first record of the cluster.
C17_Witness ==
    /\ last.op = "store" /\ last.path = "merge" /\ last.b = BOUND_EXACT
    /\ HasLower(last.old[0][last.at[2]])
    /\ last.old[0][last.at[2]].valueLower > last.v
    /\ Probe(last.key) = last.at
    /\ last.key = Key64(0, 5)
    /\ \A i \in Slots : entries[0][i].key32 # 1

\* C18: in every state save, update and set_generation reach on a record,
\* with values that fit 16 signed bits, a record with both the UPPER and the
\* LOWER bit set has valueLower <= valueUpper.
C18_BoundWindow ==
    (HasUpper(Tte) /\ HasLower(Tte)) => EntryValue(Tte) <= EntryValueUpper(Tte)

\* An update has left both sides set with a window that is not a point: the
\* lower value strictly below the upper one.
C18_Witness ==
    /\ last.op = "update"
    /\ HasUpper(Tte) /\ HasLower(Tte)
    /\ EntryValue(Tte) < EntryValueUpper(Tte)
    /\ EntryDepth(Tte) # EntryDepthUpper(Tte)

\* C19: in every state store, refresh, new_search and clear reach, one
\* after the other, no cluster holds two records with the same nonzero
\* fingerprint.
C19_NoDuplicatePositions ==
    \A c \in Clusters, i \in Slots, j \in Slots :
        (i # j /\ entries[c][i].key32 # 0) => entries[c][i].key32 # entries[c][j].key32

\* After a new search, a store has evicted a record from a full cluster:
\* the cluster holds four positions, the stored one among them once.
C19_Witness ==
    /\ last.op = "store" /\ last.path = "evict"
    /\ searches = 1
    /\ \A i \in Slots : entries[0][i].key32 # 0
    /\ Cardinality({i \in Slots : entries[0][i].key32 = last.key.lo}) = 1

\* C20: whenever refresh is applied to the record a probe of a key
\* returned, the record it stamps still carries the fingerprint of that key,
\* whatever stores of other threads ran between the probe and the refresh:
\* refresh never stamps a record that now belongs to another position.
C20_HandleValidAtTouch ==
    last.op = "refresh" =>
        EntryKey(entries[last.at[1]][last.at[2]]) = Key32(last.key)

====
